---- MODULE Spec2Model ----
(***************************************************************************)
(* usort: sorting of import statements inside "sortable blocks".           *)
(*                                                                         *)
(* Strings are sequences of character codes (ASCII), so that Python's      *)
(* str comparison, lower(), split("."), lstrip("."), startswith and the    *)
(* comment-splitting regular expression are computed as the code computes  *)
(* them.  A dotted name of the syntax tree (cst.Name / cst.Attribute) is a *)
(* sequence of segments, each segment a string.                            *)
(***************************************************************************)
EXTENDS Integers, Sequences, FiniteSets, TLC

\* body : the statements of the scope handed to leave_Module
\* i    : sortable_blocks' loop index; ret, cur : its block list and the open
\*        block (an index into ret, 0 for None)
\* k    : leave_Module's loop index over the blocks; out : its `body` list
\* perm : for each position of out, the position of body its statement
\*        came from
\* pc   : "partition", "sort", "done", or "raised" once an exception left
\*        the transformer
\* pass : how many times usort_string has been applied
\* input   : the statements of the module as they were parsed
\* frames  : the enclosing bodies whose visit is suspended while the
\*           transformer visits a nested IndentedBlock: the enclosing body
\*           and the position in it of the statement that owns the block
\* visited : how many statements of body the visit has passed
\* files   : the files usort_path iterates over, in walk order
\* f       : how many files the loop of usort_path has taken
\* data    : the local variable data of usort_path
\* yielded : the Result objects usort_path has yielded
\* write   : the keyword argument write of usort_path
\* stdin   : what usort_stdin finds: whether Config.find, sys.stdin.read and
\*           try_parse succeed, and the statements of the text
\* stdout  : what has been written to sys.stdout
\* stderr  : what has been written to sys.stderr
\* returned : the return value of usort_stdin
VARIABLES body, i, ret, cur, k, out, perm, pc, pass, input, frames, visited,
          files, f, data, yielded, write, stdin, stdout, stderr, returned

vars == <<body, i, ret, cur, k, out, perm, pc, pass, input, frames, visited,
          files, f, data, yielded, write, stdin, stdout, stderr, returned>>

(* ------------------------------ bounds --------------------------------- *)

\* longest statement sequence of one scope
MaxLen == 3

\* number of times the transformer is run on its own output
MaxPass == 2

(* --------------------------- Python values ----------------------------- *)

\* None, where the code has an Optional[str] or an optional cst.Comment
None == <<0>>

\* None, where the syntax tree has an optional Name/Attribute
NoneName == <<None>>

SetMin(S) == CHOOSE m \in S : \A n \in S : m <= n

\* str.lower() on ASCII
Lower(s) == [j \in 1..Len(s) |-> IF s[j] >= 65 /\ s[j] <= 90 THEN s[j] + 32 ELSE s[j]]

\* str < str : lexicographic on code points
StrLt(s, t) ==
    \E j \in 1..Len(t) :
        /\ \A m \in 1..(j - 1) : m <= Len(s) /\ s[m] = t[m]
        /\ (j > Len(s) \/ s[j] < t[j])

\* sequence-of-str < sequence-of-str : Python's list / tuple comparison
LinesLt(a, b) ==
    \E j \in 1..Len(b) :
        /\ \A m \in 1..(j - 1) : m <= Len(a) /\ a[m] = b[m]
        /\ (j > Len(a) \/ StrLt(a[j], b[j]))

StartsWith(s, p) == Len(s) >= Len(p) /\ SubSeq(s, 1, Len(p)) = p

\* `p in s` for strings
Contains(s, p) == \E j \in 0..(Len(s) - Len(p)) : SubSeq(s, j + 1, j + Len(p)) = p

\* "." * n
Dots(n) == [j \in 1..n |-> 46]

\* len(x) - len(x.lstrip("."))
LeadingDots(s) == Cardinality({n \in 1..Len(s) : \A j \in 1..n : s[j] = 46})

\* x.split(".")[0]
FirstPart(s) ==
    LET ds == {j \in 1..Len(s) : s[j] = 46}
    IN IF ds = {} THEN s ELSE SubSeq(s, 1, SetMin(ds) - 1)

\* sep.join(parts)
RECURSIVE Join(_, _)
Join(parts, sep) ==
    IF parts = <<>> THEN <<>>
    ELSE IF Len(parts) = 1 THEN parts[1]
    ELSE parts[1] \o sep \o Join(Tail(parts), sep)

\* x.split(".")
RECURSIVE SplitDots(_)
SplitDots(s) ==
    LET ds == {j \in 1..Len(s) : s[j] = 46}
    IN IF ds = {} THEN <<s>>
       ELSE <<SubSeq(s, 1, SetMin(ds) - 1)>> \o SplitDots(SubSeq(s, SetMin(ds) + 1, Len(s)))

\* str.rstrip()
RECURSIVE RStrip(_)
RStrip(s) ==
    IF s # <<>> /\ s[Len(s)] \in {32, 9} THEN RStrip(SubSeq(s, 1, Len(s) - 1)) ELSE s

\* str.replace(" ", "")
RECURSIVE NoSpaces(_)
NoSpaces(s) ==
    IF s = <<>> THEN <<>>
    ELSE (IF s[1] = 32 THEN <<>> ELSE <<s[1]>>) \o NoSpaces(Tail(s))

EmptyDict == [n \in {} |-> <<>>]

(* ------------------------------- util.py -------------------------------- *)

with_dots(x) == Join(x, <<46>>)

\* top_level_name(x) : x.split(".", 1)[0]
top_level_name(x) == FirstPart(x)

\* stemjoin(stem, name)
stemjoin(stem, name) ==
    IF stem = None THEN name
    ELSE IF stem # <<>> /\ stem[Len(stem)] = 46 THEN stem \o name
    ELSE stem \o <<46>> \o name

(* ---------------------- syntax tree (libcst) nodes ---------------------- *)

\* One statement of a scope's body.  type is the kind of body[0] of a
\* SimpleStatementLine ("Import", "ImportFrom"), or "Other" for any other
\* statement.  leading_lines holds, per empty line above the statement, its
\* comment or None; comment is trailing_whitespace.comment; lpar_comment is
\* lpar.whitespace_after.first_line.comment; lpar_lines holds, per empty line
\* after the opening parenthesis, its comment or None; rpar_lines the same
\* for the empty lines before the closing parenthesis; rpar_comment is
\* rpar.whitespace_before.first_line.comment; rest counts the further
\* semicolon-joined small statements body[1:].  comma_comment of an alias is
\* comma.whitespace_after.first_line.comment, before_comma is
\* comma.whitespace_before.first_line.comment and comma_lines holds the
\* comments of comma.whitespace_after.empty_lines.  block is the body of the
\* IndentedBlock of a compound statement, <<>> for a statement without one.
Alias(name, asname) ==
    [name |-> name, asname |-> asname, comma_comment |-> None,
     before_comma |-> None, comma_lines |-> <<>>]

Stmt(type, star, relative, module, names) ==
    [type |-> type, star |-> star, relative |-> relative, module |-> module,
     names |-> names, lpar |-> FALSE, lpar_comment |-> None,
     trailing_comma |-> FALSE, leading_lines |-> <<>>, comment |-> None,
     lpar_lines |-> <<>>, rpar_lines |-> <<>>, rpar_comment |-> None,
     rest |-> 0, block |-> <<>>]

Import(names) == Stmt("Import", FALSE, 0, NoneName, names)

ImportFrom(relative, module, names) == Stmt("ImportFrom", FALSE, relative, module, names)

ImportStar(module) == Stmt("ImportFrom", TRUE, 0, module, <<>>)

Other == Stmt("Other", FALSE, 0, NoneName, <<>>)

(* --------------------------- Config (external) -------------------------- *)

\* Config.categories : the ordered category list
Categories == <<"future", "standard_library", "third_party", "first_party">>

\* Config.known : top-level module name -> category ("a" and "f")
Known == (<<97>> :> "standard_library") @@ (<<102>> :> "first_party")

\* Config.directive_comments : marker substrings ("!")
directive_comments == {<<33>>}

\* Config.category(dotted_import)
config_category(dotted) ==
    LET first == FirstPart(dotted)
    IN IF first = <<>> THEN "first_party"
       ELSE IF first \in DOMAIN Known THEN Known[first]
       ELSE "third_party"

\* list.index(x)
CategoryIndex(c) == (CHOOSE j \in 1..Len(Categories) : Categories[j] = c) - 1

(* ------------------------------ sorting.py ------------------------------ *)

\* "#usort:skip"
UsortSkip == <<35, 117, 115, 111, 114, 116, 58, 115, 107, 105, 112>>

\* "#isort:skip"
IsortSkip == <<35, 105, 115, 111, 114, 116, 58, 115, 107, 105, 112>>

\* is_sortable_import without the test for the skip comments
is_sortable_import_no_skip(stmt) ==
    IF stmt.type \in {"Import", "ImportFrom"}
    THEN IF stmt.type = "ImportFrom" THEN ~stmt.star ELSE TRUE
    ELSE FALSE

\* is_sortable_import without the test for `from x import *`
is_sortable_import_star(stmt) ==
    IF stmt.type \in {"Import", "ImportFrom"}
    THEN ~( /\ stmt.comment # None
            /\ \/ StartsWith(NoSpaces(stmt.comment), UsortSkip)
               \/ StartsWith(NoSpaces(stmt.comment), IsortSkip) )
    ELSE FALSE

is_sortable_import(stmt) ==
    IF stmt.type \in {"Import", "ImportFrom"}
    THEN IF /\ stmt.comment # None
            /\ \/ StartsWith(NoSpaces(stmt.comment), UsortSkip)
               \/ StartsWith(NoSpaces(stmt.comment), IsortSkip)
         THEN FALSE
         ELSE IF stmt.type = "ImportFrom" THEN ~stmt.star ELSE TRUE
    ELSE FALSE

\* name_overlap that looks at the local names only
name_overlap_any_rebinding(a, b) == \E n \in DOMAIN b : n \in DOMAIN a

\* name_overlap with the comparison of the targets inverted
name_overlap_same_target(a, b) == \E n \in DOMAIN b : n \in DOMAIN a /\ a[n] = b[n]

name_overlap(a, b) == \E n \in DOMAIN b : n \in DOMAIN a /\ a[n] # b[n]

partition_leading_lines(lines) ==
    LET hs == {j \in 1..Len(lines) : StartsWith(lines[j], <<35>>)}
        j0 == IF hs = {} THEN Len(lines) ELSE SetMin(hs) - 1
    IN <<SubSeq(lines, 1, j0), SubSeq(lines, j0 + 1, Len(lines))>>

(* ------------------------------- types.py ------------------------------- *)

\* first_module, as SortableImport.from_node derives it (before lower())
FirstModule(node) ==
    IF node.type = "Import" THEN with_dots(node.names[1].name)
    ELSE LET sort_key == IF node.module = NoneName
                         THEN with_dots(node.names[1].name)
                         ELSE with_dots(node.module)
         IN IF node.relative > 0
            THEN Dots(node.relative)
                     \o (IF node.module # NoneName THEN sort_key ELSE <<>>)
            ELSE sort_key

\* first_dotted_import, as SortableImport.from_node derives it
FirstDottedImport(node) ==
    IF node.type = "Import" THEN with_dots(node.names[1].name)
    ELSE IF node.relative > 0
         THEN IF node.module = NoneName
              THEN with_dots(node.names[1].name)
              ELSE with_dots(node.module)
         ELSE with_dots(node.names[1].name)

\* name_key of a from-import: the prefix of every qualified target
NameKey(node) ==
    IF node.relative > 0
    THEN Dots(node.relative)
             \o (IF node.module # NoneName THEN with_dots(node.module) \o <<46>> ELSE <<>>)
    ELSE IF node.module = NoneName
         THEN with_dots(node.names[1].name)
         ELSE with_dots(node.module) \o <<46>>

\* the local name an alias binds, and the qualified target it is bound to
BoundName(node, al) ==
    IF node.type = "Import"
    THEN IF al.asname # NoneName
         THEN FirstPart(with_dots(al.asname))
         ELSE FirstPart(with_dots(al.name))
    ELSE IF al.asname # NoneName THEN with_dots(al.asname) ELSE with_dots(al.name)

\* the qualified target with a dot put after every stem
BoundTarget_extra_dot(node, al) ==
    IF node.type = "Import"
    THEN IF al.asname # NoneName
         THEN with_dots(al.name)
         ELSE FirstPart(with_dots(al.name))
    ELSE Dots(node.relative)
             \o (IF node.module # NoneName THEN with_dots(node.module) ELSE <<>>)
             \o <<46>> \o with_dots(al.name)

BoundTarget(node, al) ==
    IF node.type = "Import"
    THEN IF al.asname # NoneName
         THEN with_dots(al.name)
         ELSE FirstPart(with_dots(al.name))
    ELSE NameKey(node) \o with_dots(al.name)

\* imported_names : dict filled alias by alias, a later alias overwriting
ImportedNames(node) ==
    LET F[n \in 0..Len(node.names)] ==
            IF n = 0 THEN EmptyDict
            ELSE (BoundName(node, node.names[n]) :> BoundTarget(node, node.names[n]))
                     @@ F[n - 1]
    IN F[Len(node.names)]

\* SortableImport.__post_init__ : ndots
Ndots(first_module) ==
    IF ~StartsWith(first_module, <<46>>) THEN 0
    ELSE 100 - LeadingDots(first_module)

\* SortKey(category_index, is_from_import, ndots)
MakeSortKey(node, first_module) ==
    [category_index |-> CategoryIndex(config_category(first_module)),
     is_from_import |-> node.type = "ImportFrom",
     ndots |-> Ndots(first_module)]

\* SortKey.__lt__ with from-imports ordered before plain imports
SortKeyLt_from_first(a, b) ==
    IF a.category_index # b.category_index THEN a.category_index < b.category_index
    ELSE IF a.is_from_import # b.is_from_import THEN a.is_from_import
    ELSE a.ndots < b.ndots

\* SortKey.__lt__ : dataclass(order=True), field by field
SortKeyLt(a, b) ==
    IF a.category_index # b.category_index THEN a.category_index < b.category_index
    ELSE IF a.is_from_import # b.is_from_import THEN b.is_from_import
    ELSE a.ndots < b.ndots

\* SortableImport.__lt__ : dataclass(order=True) over the compare=True
\* fields, in declaration order
SortableImportLt(a, b) ==
    IF a.sort_key # b.sort_key THEN SortKeyLt(a.sort_key, b.sort_key)
    ELSE IF a.first_module # b.first_module THEN StrLt(a.first_module, b.first_module)
    ELSE IF a.first_dotted_import # b.first_dotted_import
         THEN StrLt(a.first_dotted_import, b.first_dotted_import)
    ELSE IF a.directive_lines # b.directive_lines
         THEN LinesLt(a.directive_lines, b.directive_lines)
    ELSE IF a.comment_lines # b.comment_lines
         THEN LinesLt(a.comment_lines, b.comment_lines)
    ELSE IF a.inline_first_comments # b.inline_first_comments
         THEN LinesLt(a.inline_first_comments, b.inline_first_comments)
    ELSE LinesLt(a.inline_last_comments, b.inline_last_comments)

(* ----------------------------- translate.py ----------------------------- *)

\* INLINE_COMMENT_RE.findall(text), each fragment rstrip()ped:
\* a fragment is a run of "#" followed by a run of non-"#"
RECURSIVE split_inline_comments(_)
split_inline_comments(text) ==
    LET hs == {j \in 1..Len(text) : text[j] = 35}
    IN IF hs = {} THEN <<>>
       ELSE LET p == SetMin(hs)
                nonh == {j \in p..Len(text) : text[j] # 35}
                q == IF nonh = {} THEN Len(text) + 1 ELSE SetMin(nonh)
                nexth == {j \in q..Len(text) : text[j] = 35}
                r == IF nexth = {} THEN Len(text) + 1 ELSE SetMin(nexth)
            IN <<RStrip(SubSeq(text, p, r - 1))>>
                   \o split_inline_comments(SubSeq(text, r, Len(text)))

\* parse_import_comments : ImportComments(before, first_inline, initial,
\* inline, final, last_inline)
parse_import_comments(stmt) ==
    LET trailing == IF stmt.comment # None
                    THEN split_inline_comments(stmt.comment) ELSE <<>>
        paren == stmt.type = "ImportFrom" /\ stmt.lpar
    IN [before |-> SelectSeq(stmt.leading_lines, LAMBDA c : c # None),
        initial |-> IF paren THEN stmt.lpar_lines ELSE <<>>,
        inline |-> IF paren /\ stmt.rpar_comment # None
                   THEN split_inline_comments(stmt.rpar_comment) ELSE <<>>,
        final |-> IF paren THEN stmt.rpar_lines ELSE <<>>,
        first_inline |->
            IF stmt.type = "ImportFrom" /\ stmt.lpar
            THEN IF stmt.lpar_comment # None
                 THEN split_inline_comments(stmt.lpar_comment) ELSE <<>>
            ELSE trailing,
        last_inline |->
            IF stmt.type = "ImportFrom" /\ stmt.lpar THEN trailing ELSE <<>>]

\* item_from_node that forgets the alias
item_from_node_no_asname(al, directives) ==
    [name |-> with_dots(al.name), asname |-> None,
     directive_lines |-> directives,
     inline_comments |-> IF al.comma_comment # None
                         THEN split_inline_comments(al.comma_comment) ELSE <<>>]

item_from_node(al, directives) ==
    [name |-> with_dots(al.name),
     asname |-> IF al.asname # NoneName THEN with_dots(al.asname) ELSE None,
     directive_lines |-> directives,
     inline_comments |-> IF al.comma_comment # None
                         THEN split_inline_comments(al.comma_comment) ELSE <<>>]

\* parse_alias_comments : ImportItemComments(inline, following)
parse_alias_comments(alias) ==
    [inline |-> (IF alias.before_comma # None
                 THEN split_inline_comments(alias.before_comma) ELSE <<>>)
                    \o (IF alias.comma_comment # None
                        THEN split_inline_comments(alias.comma_comment) ELSE <<>>),
     following |-> alias.comma_lines]

\* a split that turns sticky only after the line that holds the marker
DirectiveStart_after_marker(before) ==
    LET ds == {j \in 1..Len(before) :
                   \E ind \in directive_comments : Contains(before[j], ind)}
    IN IF ds = {} THEN Len(before) + 1 ELSE SetMin(ds) + 1

\* the sticky split of the leading comments: comment_lines, directive_lines
DirectiveStart(before) ==
    LET ds == {j \in 1..Len(before) :
                   \E ind \in directive_comments : Contains(before[j], ind)}
    IN IF ds = {} THEN Len(before) + 1 ELSE SetMin(ds)

\* the assertions of from_node and parse_import_comments, and the
\* line.comment.value of an empty line that has no comment
from_node_raises(node) ==
    \/ node.star
    \/ node.rest # 0
    \/ /\ node.type = "ImportFrom" /\ node.lpar
       /\ \/ \E j \in 1..Len(node.lpar_lines) : node.lpar_lines[j] = None
          \/ \E j \in 1..Len(node.rpar_lines) : node.rpar_lines[j] = None

from_node(node) ==
    LET comments == parse_import_comments(node)
        d == DirectiveStart(comments.before)
        stem == IF node.type = "Import" THEN None
                ELSE Dots(node.relative)
                         \o (IF node.module = NoneName THEN <<>> ELSE with_dots(node.module))
        first_module == Lower(FirstModule(node))
    IN [stem |-> stem,
        imports |-> [n \in 1..Len(node.names) |->
                        item_from_node(node.names[n],
                                       IF node.type = "ImportFrom" /\ n = 1
                                       THEN comments.initial ELSE <<>>)],
        extra_inside_comment |-> comments.final,
        directive_lines |-> SubSeq(comments.before, d, Len(comments.before)),
        comment_lines |-> SubSeq(comments.before, 1, d - 1),
        inline_first_comments |-> comments.first_inline,
        inline_last_comments |-> comments.last_inline,
        first_module |-> first_module,
        first_dotted_import |-> Lower(FirstDottedImport(node)),
        sort_key |-> MakeSortKey(node, first_module),
        imported_names |-> ImportedNames(node)]

split_relative(x) == <<LeadingDots(x), SubSeq(x, LeadingDots(x) + 1, Len(x))>>

\* an attr_or_name that keeps only the last part of a dotted name
attr_or_name_last(x) == <<SplitDots(x)[Len(SplitDots(x))]>>

attr_or_name(x) == SplitDots(x)

\* the statement node both renderings build, but for the parentheses
RenderedLine(si, multi) ==
    LET lines == si.comment_lines \o si.directive_lines
        names == [n \in 1..Len(si.imports) |->
                     Alias(attr_or_name(si.imports[n].name),
                           IF si.imports[n].asname \in {None, <<>>} THEN NoneName
                           ELSE <<si.imports[n].asname>>)]
        is_from == si.stem \notin {None, <<>>}
        inline == si.inline_first_comments \o si.inline_last_comments
    IN [type |-> IF is_from THEN "ImportFrom" ELSE "Import",
        star |-> FALSE,
        relative |-> IF is_from THEN split_relative(si.stem)[1] ELSE 0,
        module |-> IF is_from /\ split_relative(si.stem)[2] # <<>>
                   THEN attr_or_name(split_relative(si.stem)[2]) ELSE NoneName,
        names |-> names,
        lpar |-> multi /\ is_from,
        lpar_comment |-> None,
        trailing_comma |-> multi,
        leading_lines |-> [n \in 1..Len(lines) |->
                              IF StartsWith(lines[n], <<35>>) THEN lines[n] ELSE None],
        comment |-> IF inline # <<>> THEN Join(inline, <<32, 32>>) ELSE None,
        lpar_lines |-> <<>>, rpar_lines |-> <<>>, rpar_comment |-> None,
        rest |-> 0, block |-> <<>>]

to_node_single_line(si) == RenderedLine(si, FALSE)

to_node_multi_line(si) == RenderedLine(si, TRUE)

\* mod.code_for_node of a single-line statement
CodeForNode(node) ==
    LET names == [n \in 1..Len(node.names) |->
                     with_dots(node.names[n].name)
                         \o (IF node.names[n].asname # NoneName
                             THEN <<32, 97, 115, 32>> \o with_dots(node.names[n].asname)
                             ELSE <<>>)]
        head == IF node.type = "ImportFrom"
                THEN <<102, 114, 111, 109, 32>> \o Dots(node.relative)
                         \o (IF node.module # NoneName THEN with_dots(node.module) ELSE <<>>)
                         \o <<32, 105, 109, 112, 111, 114, 116, 32>>
                ELSE <<105, 109, 112, 111, 114, 116, 32>>
    IN head \o Join(names, <<44, 32>>)
           \o (IF node.comment # None THEN <<32, 32>> \o node.comment ELSE <<>>)
           \o <<10>>

check_width(node) == Len(CodeForNode([node EXCEPT !.leading_lines = <<>>]))

temp_width == 88

\* cst.Import refuses a trailing comma on its last name (CSTValidationError)
to_node_raises(si) ==
    /\ check_width(to_node_single_line(si)) > temp_width
    /\ si.stem \in {None, <<>>}

to_node(si) ==
    IF check_width(to_node_single_line(si)) > temp_width
    THEN to_node_multi_line(si)
    ELSE to_node_single_line(si)

(* -------------------- sorting.py : the transformer ----------------------- *)

\* an insertion that puts a member before the members equal to it
InsertSorted_before_equal(acc, x, stmts) ==
    LET pos == Cardinality({m \in 1..Len(acc) : SortableImportLt(stmts[acc[m]], stmts[x])})
    IN SubSeq(acc, 1, pos) \o <<x>> \o SubSeq(acc, pos + 1, Len(acc))

\* sorted(stmts) : the stable ascending order under __lt__, as the sequence
\* of the members' indices
InsertSorted(acc, x, stmts) ==
    LET pos == Cardinality({m \in 1..Len(acc) : ~SortableImportLt(stmts[x], stmts[acc[m]])})
    IN SubSeq(acc, 1, pos) \o <<x>> \o SubSeq(acc, pos + 1, Len(acc))

RECURSIVE SortedUpTo(_, _)
SortedUpTo(stmts, n) ==
    IF n = 0 THEN <<>> ELSE InsertSorted(SortedUpTo(stmts, n - 1), n, stmts)

sorted(stmts) == SortedUpTo(stmts, Len(stmts))

\* fixup_whitespace that puts no separator where the category changes
fixup_whitespace_no_separator(initial_blank, imports) ==
    [n \in 1..Len(imports) |->
        LET blanks == IF n = 1 THEN initial_blank ELSE <<>>
            old_comments == partition_leading_lines(imports[n].comment_lines)[2]
        IN [imports[n] EXCEPT !.comment_lines = blanks \o old_comments]]

\* a fixup that puts the separator in place of the import's comment lines
fixup_whitespace_replaces(initial_blank, imports) ==
    [n \in 1..Len(imports) |->
        LET blanks == IF n = 1 THEN initial_blank
                      ELSE IF imports[n].sort_key.category_index
                                  # imports[n - 1].sort_key.category_index
                           THEN << <<>> >>
                           ELSE <<>>
            old_comments == partition_leading_lines(imports[n].comment_lines)[2]
        IN [imports[n] EXCEPT !.comment_lines =
                                  IF blanks # <<>> THEN blanks ELSE old_comments]]

fixup_whitespace(initial_blank, imports) ==
    [n \in 1..Len(imports) |->
        LET blanks == IF n = 1 THEN initial_blank
                      ELSE IF imports[n].sort_key.category_index
                                  # imports[n - 1].sort_key.category_index
                           THEN << <<>> >>
                           ELSE <<>>
            old_comments == partition_leading_lines(imports[n].comment_lines)[2]
        IN [imports[n] EXCEPT !.comment_lines = blanks \o old_comments]]

\* SortableBlock(start_idx, end_idx)
SortableBlock(start_idx, end_idx) ==
    [start_idx |-> start_idx, end_idx |-> end_idx, stmts |-> <<>>,
     imported_names |-> EmptyDict]

\* a loop body that leaves the block open at a statement that is no import
sortable_blocks_step_stays_open(r, c, idx, stmt) ==
    IF is_sortable_import(stmt)
    THEN LET imp == from_node(stmt)
             r1 == IF c = 0 THEN Append(r, SortableBlock(idx, idx + 1)) ELSE r
             c1 == IF c = 0 THEN Len(r1) ELSE c
             over == name_overlap(r1[c1].imported_names, imp.imported_names)
             r2 == IF over THEN Append(r1, SortableBlock(idx, idx + 1)) ELSE r1
             c2 == IF over THEN Len(r2) ELSE c1
         IN [ret |-> [r2 EXCEPT ![c2] =
                         [@ EXCEPT !.end_idx = idx + 1,
                                   !.stmts = Append(@, imp),
                                   !.imported_names = imp.imported_names @@ @]],
             cur |-> c2]
    ELSE [ret |-> r, cur |-> c]

\* a loop body whose new block inherits the names of the block it closes
sortable_blocks_step_inherits(r, c, idx, stmt) ==
    IF is_sortable_import(stmt)
    THEN LET imp == from_node(stmt)
             r1 == IF c = 0 THEN Append(r, SortableBlock(idx, idx + 1)) ELSE r
             c1 == IF c = 0 THEN Len(r1) ELSE c
             over == name_overlap(r1[c1].imported_names, imp.imported_names)
             r2 == IF over
                   THEN Append(r1, [SortableBlock(idx, idx + 1) EXCEPT
                                       !.imported_names = r1[c1].imported_names])
                   ELSE r1
             c2 == IF over THEN Len(r2) ELSE c1
         IN [ret |-> [r2 EXCEPT ![c2] =
                         [@ EXCEPT !.end_idx = idx + 1,
                                   !.stmts = Append(@, imp),
                                   !.imported_names = imp.imported_names @@ @]],
             cur |-> c2]
    ELSE [ret |-> r, cur |-> 0]

\* one iteration of the loop of sortable_blocks
sortable_blocks_step(r, c, idx, stmt) ==
    IF is_sortable_import(stmt)
    THEN LET imp == from_node(stmt)
             r1 == IF c = 0 THEN Append(r, SortableBlock(idx, idx + 1)) ELSE r
             c1 == IF c = 0 THEN Len(r1) ELSE c
             over == name_overlap(r1[c1].imported_names, imp.imported_names)
             r2 == IF over THEN Append(r1, SortableBlock(idx, idx + 1)) ELSE r1
             c2 == IF over THEN Len(r2) ELSE c1
         IN [ret |-> [r2 EXCEPT ![c2] =
                         [@ EXCEPT !.end_idx = idx + 1,
                                   !.stmts = Append(@, imp),
                                   !.imported_names = imp.imported_names @@ @]],
             cur |-> c2]
    ELSE [ret |-> r, cur |-> 0]

Identity(n) == [j \in 1..n |-> j]

(* ------------------------------- actions -------------------------------- *)

PartitionStep ==
    /\ pc = "partition"
    /\ i < Len(body)
    /\ IF is_sortable_import(body[i + 1]) /\ from_node_raises(body[i + 1])
       THEN /\ pc' = "raised"
            /\ UNCHANGED <<i, ret, cur>>
       ELSE /\ ret' = sortable_blocks_step(ret, cur, i, body[i + 1]).ret
            /\ cur' = sortable_blocks_step(ret, cur, i, body[i + 1]).cur
            /\ i' = i + 1
            /\ pc' = pc
    /\ UNCHANGED <<body, k, out, perm, pass, input, frames, visited,
                   files, f, data, yielded, write,
                   stdin, stdout, stderr, returned>>

\* body = list(updated_node.body)
BeginSplice ==
    /\ pc = "partition"
    /\ i = Len(body)
    /\ pc' = "sort"
    /\ out' = body
    /\ k' = 0
    /\ UNCHANGED <<body, i, ret, cur, perm, pass, input, frames, visited,
                   files, f, data, yielded, write,
                   stdin, stdout, stderr, returned>>

\* a slice assignment that replaces one statement too many
Splice_one_more(lst, b, nodes) ==
    SubSeq(lst, 1, b.start_idx) \o nodes \o SubSeq(lst, b.end_idx + 2, Len(lst))

\* body[b.start_idx : b.end_idx] = nodes
Splice(lst, b, nodes) ==
    SubSeq(lst, 1, b.start_idx) \o nodes \o SubSeq(lst, b.end_idx + 1, Len(lst))

\* one iteration of the loop of leave_Module
SortBlock ==
    /\ pc = "sort"
    /\ k < Len(ret)
    /\ LET b == ret[k + 1]
           initial == partition_leading_lines(b.stmts[1].comment_lines)
           stmts0 == [b.stmts EXCEPT ![1].comment_lines = initial[2]]
           order == sorted(stmts0)
           sorted_stmts == fixup_whitespace(initial[1],
                               [n \in 1..Len(order) |-> stmts0[order[n]]])
           \* the members of b.stmts are the objects fixup_whitespace changed
           fixed == [m \in 1..Len(order) |->
                        sorted_stmts[CHOOSE n \in 1..Len(order) : order[n] = m]]
       IN /\ ret' = [ret EXCEPT ![k + 1].stmts = fixed]
          /\ IF \E n \in 1..Len(sorted_stmts) : to_node_raises(sorted_stmts[n])
             THEN /\ pc' = "raised"
                  /\ UNCHANGED <<out, perm, k>>
             ELSE /\ out' = Splice(out, b, [n \in 1..Len(sorted_stmts) |->
                                               to_node(sorted_stmts[n])])
                  /\ perm' = Splice(perm, b, [n \in 1..Len(order) |->
                                                 b.start_idx + order[n]])
                  /\ k' = k + 1
                  /\ pc' = pc
    /\ UNCHANGED <<body, i, cur, pass, input, frames, visited,
                   files, f, data, yielded, write,
                   stdin, stdout, stderr, returned>>

\* return updated_node.with_changes(body=body)
Finish ==
    /\ pc = "sort"
    /\ k = Len(ret)
    /\ pc' = "done"
    /\ UNCHANGED <<body, i, ret, cur, k, out, perm, pass, input, frames, visited,
                   files, f, data, yielded, write,
                   stdin, stdout, stderr, returned>>

\* usort_string applied to the text it returned
Again ==
    /\ pc = "done"
    /\ pass < MaxPass
    /\ body' = out
    /\ pass' = pass + 1
    /\ i' = 0
    /\ ret' = <<>>
    /\ cur' = 0
    /\ k' = 0
    /\ perm' = Identity(Len(out))
    /\ pc' = "partition"
    /\ UNCHANGED <<out, input, frames, visited,
                   files, f, data, yielded, write,
                   stdin, stdout, stderr, returned>>

Next == PartitionStep \/ BeginSplice \/ SortBlock \/ Finish \/ Again

(* ------------------------------- inputs --------------------------------- *)

\* a local variable that no assignment has bound yet
Unbound == [bound |-> FALSE, value |-> <<>>]

\* usort_stdin is not running
NoStdin ==
    /\ stdin = [find |-> TRUE, read |-> TRUE, parse |-> TRUE, text |-> <<>>]
    /\ stdout = <<>>
    /\ stderr = <<>>
    /\ returned = "None"

\* usort_string called on its own: usort_path and usort_stdin are not running
NoWalk ==
    /\ files = <<>>
    /\ f = 0
    /\ data = Unbound
    /\ yielded = <<>>
    /\ write = FALSE
    /\ NoStdin

Bodies(corpus) == UNION {[1..n -> corpus] : n \in 1..MaxLen}

InitWith(corpus) ==
    /\ body \in Bodies(corpus)
    /\ i = 0
    /\ ret = <<>>
    /\ cur = 0
    /\ k = 0
    /\ out = body
    /\ perm = Identity(Len(body))
    /\ pc = "partition"
    /\ pass = 1
    /\ input = body
    /\ frames = <<>>
    /\ visited = 0
    /\ NoWalk

\* module and item names: a (standard library), b, c, B (third party),
\* f (first party)
N_a == << <<97>> >>
N_b == << <<98>> >>
N_c == << <<99>> >>
N_f == << <<102>> >>
N_B == << <<66>> >>

\* print("hi") / from a import * / import a / import b / import c /
\* import B / import a as b / from c import b / from f import c /
\* from . import b / from .. import c
Corpus ==
    { Other,
      ImportStar(N_a),
      Import(<<Alias(N_a, NoneName)>>),
      Import(<<Alias(N_b, NoneName)>>),
      Import(<<Alias(N_c, NoneName)>>),
      Import(<<Alias(N_B, NoneName)>>),
      Import(<<Alias(N_a, N_b)>>),
      ImportFrom(0, N_c, <<Alias(N_b, NoneName)>>),
      ImportFrom(0, N_f, <<Alias(N_c, NoneName)>>),
      ImportFrom(1, NoneName, <<Alias(N_b, NoneName)>>),
      ImportFrom(2, NoneName, <<Alias(N_c, NoneName)>>) }

Init == InitWith(Corpus)

Spec == Init /\ [][Next]_vars

\* "#x", a plain comment
HashX == <<35, 120>>

WithLeading(stmt, lines) == [stmt EXCEPT !.leading_lines = lines]

\* print("hi") / import a / <blank> import a / <blank> <blank> import b /
\* <blank> #x import c / #x <blank> #! from f import c
CorpusWs ==
    { Other,
      Import(<<Alias(N_a, NoneName)>>),
      WithLeading(Import(<<Alias(N_a, NoneName)>>), <<None>>),
      WithLeading(Import(<<Alias(N_b, NoneName)>>), <<None, None>>),
      WithLeading(Import(<<Alias(N_c, NoneName)>>), <<None, HashX>>),
      WithLeading(ImportFrom(0, N_f, <<Alias(N_c, NoneName)>>),
                  <<HashX, None, <<35, 33>>>>) }

SpecWs == InitWith(CorpusWs) /\ [][Next]_vars

N_d == << <<100>> >>
N_e == << <<101>> >>
N_g == << <<103>> >>

\* print("hi") / from f import b / from . import c / from ..a import d /
\* from .. import e / from <100 dots> import g
CorpusRel ==
    { Other,
      ImportFrom(0, N_f, <<Alias(N_b, NoneName)>>),
      ImportFrom(1, NoneName, <<Alias(N_c, NoneName)>>),
      ImportFrom(2, N_a, <<Alias(N_d, NoneName)>>),
      ImportFrom(2, NoneName, <<Alias(N_e, NoneName)>>),
      ImportFrom(100, NoneName, <<Alias(N_g, NoneName)>>) }

SpecRel == InitWith(CorpusRel) /\ [][Next]_vars

N_ab == << <<97>>, <<98>> >>

\* print("hi") / import a.b / import a.c / import a.b as b /
\* from a import b / import b / from c import b
CorpusNames ==
    { Other,
      Import(<<Alias(N_ab, NoneName)>>),
      Import(<<Alias(<< <<97>>, <<99>> >>, NoneName)>>),
      Import(<<Alias(N_ab, N_b)>>),
      ImportFrom(0, N_a, <<Alias(N_b, NoneName)>>),
      Import(<<Alias(N_b, NoneName)>>),
      ImportFrom(0, N_c, <<Alias(N_b, NoneName)>>) }

SpecNames == InitWith(CorpusNames) /\ [][Next]_vars

(* ------------------------- vocabulary of the claims ----------------------- *)

\* position p (1-based) lies in the half-open span [start_idx, end_idx) of b
InBlock(p, b) == b.start_idx < p /\ p <= b.end_idx

Covered(p) == \E n \in 1..Len(ret) : InBlock(p, ret[n])

\* where the statement of input position p stands in the output
PosOf(p) == CHOOSE o \in 1..Len(perm) : perm[o] = p

IsImport(s) == s.type \in {"Import", "ImportFrom"} /\ ~s.star

IsStar(s) == s.type = "ImportFrom" /\ s.star

\* what a statement imports: its kind, dots, module path, names and aliases
Sem(s) == [type |-> s.type, star |-> s.star, relative |-> s.relative,
           module |-> s.module,
           names |-> [n \in 1..Len(s.names) |->
                         [name |-> s.names[n].name, asname |-> s.names[n].asname]]]

KeyOf(s) == from_node(s).sort_key

\* ascending lexicographic order of (category_index, is_from_import, ndots)
KeyLeq(x, y) ==
    \/ x.category_index < y.category_index
    \/ /\ x.category_index = y.category_index
       /\ \/ (~x.is_from_import /\ y.is_from_import)
          \/ (x.is_from_import = y.is_from_import /\ x.ndots <= y.ndots)

\* x and y bind one local name to two different qualified targets
Conflict(x, y) ==
    \E n \in DOMAIN ImportedNames(x) \cap DOMAIN ImportedNames(y) :
        ImportedNames(x)[n] # ImportedNames(y)[n]

\* no non-import statement stands at or between positions p and q
SameRun(p, q) ==
    \A r \in 1..Len(body) :
        ((p <= r /\ r <= q) \/ (q <= r /\ r <= p)) => body[r].type # "Other"

(* -------------------------------- claims -------------------------------- *)

\* C1: idempotence: sorting the output of a sort again returns that output
\* unchanged, sort(sort(x)) = sort(x), blank lines and comments included.
C1_Idempotent == (pc = "done" /\ pass > 1) => out = body

\* C2: non-interference: every statement at a position outside the span of
\* every sortable block is the same statement at the same position in the
\* output, and the number of statements of the scope is unchanged.
C2_NonInterference ==
    pc \in {"sort", "done"} =>
        /\ Len(out) = Len(body)
        /\ \A p \in 1..Len(body) : ~Covered(p) => out[p] = body[p]

C2_Witness ==
    /\ pc = "done"
    /\ out # body
    /\ \E p \in 1..Len(body) : ~Covered(p)

\* C3: shadowing safety: two imports of one run of imports that bind the same
\* local name to different targets are never members of one block, and the
\* earlier one still precedes the later one in the output.
C3_ShadowingSafety ==
    \A p \in 1..Len(body) : \A q \in 1..Len(body) :
        ( /\ p < q
          /\ IsImport(body[p]) /\ IsImport(body[q])
          /\ SameRun(p, q)
          /\ Conflict(body[p], body[q]) )
        => /\ ~\E n \in 1..Len(ret) : InBlock(p, ret[n]) /\ InBlock(q, ret[n])
           /\ PosOf(p) < PosOf(q)

C3_Witness ==
    /\ pc = "done"
    /\ \E p \in 1..Len(body) : \E q \in 1..Len(body) :
        /\ p < q /\ Covered(p) /\ Covered(q)
        /\ Conflict(body[p], body[q])
        /\ SortableImportLt(from_node(body[q]), from_node(body[p]))

\* C4: no import crosses a barrier: in every run of statements delimited by
\* non-import statements the output holds each import exactly as often as the
\* input does, and every non-import statement stays where it was.
C4_RunsArePermuted ==
    pc \in {"sort", "done"} =>
        /\ Len(out) = Len(body)
        /\ \A p \in 1..Len(body) :
            IF body[p].type = "Other" THEN out[p] = body[p]
            ELSE LET R == {q \in 1..Len(body) : SameRun(p, q)}
                 IN \A v \in {Sem(body[q]) : q \in R} \cup {Sem(out[q]) : q \in R} :
                        Cardinality({q \in R : Sem(out[q]) = v})
                            = Cardinality({q \in R : Sem(body[q]) = v})

C4_Witness ==
    /\ pc = "done"
    /\ \E r \in 1..Len(body) :
        /\ body[r].type = "Other"
        /\ \E p \in 1..Len(body) : perm[p] # p

\* C5: in every block of the output the imports stand in non-decreasing
\* order of sort_key = (category_index, is_from_import, ndots); within one
\* category every plain import precedes every from-import.
C5_SortedBySortKey ==
    pc = "done" =>
        \A n \in 1..Len(ret) : \A p \in 1..Len(out) : \A q \in 1..Len(out) :
            (InBlock(p, ret[n]) /\ InBlock(q, ret[n]) /\ p < q)
            => /\ KeyLeq(KeyOf(out[p]), KeyOf(out[q]))
               /\ ( /\ KeyOf(out[p]).category_index = KeyOf(out[q]).category_index
                    /\ out[q].type = "Import" ) => out[p].type = "Import"

C5_Witness ==
    /\ pc = "done"
    /\ \E n \in 1..Len(ret) : \E p \in 1..Len(out) : \E q \in 1..Len(out) :
        /\ InBlock(p, ret[n]) /\ InBlock(q, ret[n]) /\ p < q
        /\ out[p].type = "Import" /\ out[q].type = "ImportFrom"
        /\ KeyOf(out[p]).category_index = KeyOf(out[q]).category_index
        /\ perm[p] > perm[q]

\* the compare=True fields of two imports are all equal
FullKeyEq(x, y) ==
    /\ x.sort_key = y.sort_key
    /\ x.first_module = y.first_module
    /\ x.first_dotted_import = y.first_dotted_import
    /\ x.directive_lines = y.directive_lines
    /\ x.comment_lines = y.comment_lines
    /\ x.inline_first_comments = y.inline_first_comments
    /\ x.inline_last_comments = y.inline_last_comments

\* C6 as stated: two imports of one block with equal sort_key keep their
\* relative order (ties are broken only by input order).
C6_StableOnSortKey ==
    \A n \in 1..Len(ret) : \A p \in 1..Len(body) : \A q \in 1..Len(body) :
        ( /\ InBlock(p, ret[n]) /\ InBlock(q, ret[n]) /\ p < q
          /\ KeyOf(body[p]) = KeyOf(body[q]) )
        => PosOf(p) < PosOf(q)

\* C6 as amended: two imports of one block keep their relative order when
\* they are equal in every compared field: sort_key, lower-cased first_module
\* and first_dotted_import, directive_lines, comment_lines and the inline
\* comments.
C6_StableOnEqualImports ==
    \A n \in 1..Len(ret) : \A p \in 1..Len(body) : \A q \in 1..Len(body) :
        ( /\ InBlock(p, ret[n]) /\ InBlock(q, ret[n]) /\ p < q
          /\ FullKeyEq(from_node(body[p]), from_node(body[q])) )
        => PosOf(p) < PosOf(q)

C6_Witness ==
    /\ pc = "done"
    /\ \E n \in 1..Len(ret) : \E p \in 1..Len(body) : \E q \in 1..Len(body) :
        /\ InBlock(p, ret[n]) /\ InBlock(q, ret[n]) /\ p < q
        /\ FullKeyEq(from_node(body[p]), from_node(body[q]))
        /\ body[p] # body[q]
        /\ PosOf(p) # p

\* C10: a star import belongs to no block, stays unchanged at its position,
\* never reaches from_node, and no import moves from one side of it to the
\* other: the imports before it and after it are sorted independently.
C10_StarIsBarrier ==
    \A p \in 1..Len(body) :
        IsStar(body[p]) =>
            /\ ~Covered(p)
            /\ out[p] = body[p]
            /\ \A o \in 1..Len(perm) : (o < p) <=> (perm[o] < p)
            /\ \A n \in 1..Len(ret) : ret[n].end_idx < p \/ ret[n].start_idx >= p
            /\ pc = "raised" => i + 1 # p

C10_Witness ==
    /\ pc = "done"
    /\ \E p \in 2..(Len(body) - 1) :
        /\ IsStar(body[p])
        /\ Covered(p - 1) /\ Covered(p + 1)
        /\ SortableImportLt(from_node(body[p + 1]), from_node(body[p - 1]))
        /\ out[p - 1] = body[p - 1] /\ out[p + 1] = body[p + 1]

\* the positions of the blank lines among the lines above a statement
BlankLines(stmt) == {j \in 1..Len(stmt.leading_lines) : stmt.leading_lines[j] = None}

\* output position o is a second or later position of a block already sorted
LaterInSortedBlock(o) ==
    /\ pc \in {"sort", "done"}
    /\ o \in 2..Len(out)
    /\ \E n \in 1..k : InBlock(o - 1, ret[n]) /\ InBlock(o, ret[n])

InSortedBlock(p, q) ==
    /\ pc \in {"sort", "done"}
    /\ \E n \in 1..k : InBlock(p, ret[n]) /\ InBlock(q, ret[n])

\* C8: relative-import ordering: an absolute import has dot count 0 and a
\* relative import with N leading dots has 100 - N; for every N >= 1 a
\* relative import stands after every absolute from-import of its category,
\* and of two relative imports the one with more leading dots stands first.
C8_RelativeAfterAbsolute ==
    /\ \A p \in 1..Len(body) :
        IsImport(body[p]) =>
            KeyOf(body[p]).ndots
                = IF body[p].relative = 0 THEN 0 ELSE 100 - body[p].relative
    /\ \A p \in 1..Len(body) : \A q \in 1..Len(body) :
        InSortedBlock(p, q) =>
            /\ ( /\ body[p].type = "ImportFrom" /\ body[p].relative = 0
                 /\ body[q].relative >= 1
                 /\ KeyOf(body[p]).category_index = KeyOf(body[q]).category_index )
               => PosOf(p) < PosOf(q)
            /\ ( body[p].relative > body[q].relative /\ body[q].relative >= 1 )
               => PosOf(p) < PosOf(q)

\* a new block was opened at the statement the loop has just examined
OpenedBlock == Len(ret') = Len(ret) + 1

\* C9: collision rule: an import examined while a block is open closes that
\* block and opens a new one exactly when it binds a local name that the
\* block's imported_names bind to a different target; otherwise, also when it
\* binds a name again to the identical target, it joins the open block.
C9_CollisionRule ==
    [][ ( /\ pc = "partition" /\ i' = i + 1
          /\ cur # 0
          /\ IsImport(body[i + 1]) )
        => LET open == ret[cur].imported_names
               new == ImportedNames(body[i + 1])
               collides == \E n \in DOMAIN new \cap DOMAIN open : open[n] # new[n]
           IN /\ OpenedBlock <=> collides
              /\ ~collides => /\ cur' = cur
                              /\ ret'[cur].end_idx = i + 1
                              /\ Len(ret'[cur].stmts) = Len(ret[cur].stmts) + 1
              /\ collides => /\ cur' = Len(ret')
                             /\ ret'[cur'].start_idx = i
                             /\ ret'[cur] = ret[cur] ]_vars

C9_Witness ==
    /\ pc = "partition"
    /\ Len(ret) = 2
    /\ Len(ret[1].stmts) = 2
    /\ \E n \in DOMAIN ImportedNames(body[1]) \cap DOMAIN ImportedNames(body[2]) :
           ImportedNames(body[1])[n] = ImportedNames(body[2])[n]
    /\ i = 3
    /\ Conflict(body[2], body[3]) \/ Conflict(body[1], body[3])

(* ------------------------------ skip markers ----------------------------- *)

WithComment(stmt, comment) == [stmt EXCEPT !.comment = comment]

\* print("hi") / import a / import b / import c  # x /
\* import b  # usort: skip / import B  #isort:skip /
\* import c  # noqa usort:skip
CorpusSkip ==
    { Other,
      Import(<<Alias(N_a, NoneName)>>),
      Import(<<Alias(N_b, NoneName)>>),
      WithComment(Import(<<Alias(N_c, NoneName)>>), <<35, 32, 120>>),
      WithComment(Import(<<Alias(N_b, NoneName)>>),
                  <<35, 32, 117, 115, 111, 114, 116, 58, 32, 115, 107, 105, 112>>),
      WithComment(Import(<<Alias(N_B, NoneName)>>),
                  <<35, 105, 115, 111, 114, 116, 58, 115, 107, 105, 112>>),
      WithComment(Import(<<Alias(N_c, NoneName)>>),
                  <<35, 32, 110, 111, 113, 97, 32, 117, 115, 111, 114, 116, 58, 115,
                    107, 105, 112>>) }

SpecSkip == InitWith(CorpusSkip) /\ [][Next]_vars

\* the text with every blank and tab removed
RECURSIVE NoWhitespace(_)
NoWhitespace(s) ==
    IF s = <<>> THEN <<>>
    ELSE (IF s[1] \in {32, 9} THEN <<>> ELSE <<s[1]>>) \o NoWhitespace(Tail(s))

\* the trailing comment of the statement holds usort:skip or isort:skip
HasSkipMarker(stmt) ==
    /\ stmt.comment # None
    /\ \/ Contains(NoWhitespace(stmt.comment), SubSeq(UsortSkip, 2, Len(UsortSkip)))
       \/ Contains(NoWhitespace(stmt.comment), SubSeq(IsortSkip, 2, Len(IsortSkip)))

\* C11: skip marker: an import whose trailing comment, with all whitespace
\* removed, contains usort:skip or isort:skip is not sortable: it belongs to
\* no block, no import moves across it, and it is left untouched.
C11_SkipMarkerContained ==
    \A p \in 1..Len(body) :
        (body[p].type \in {"Import", "ImportFrom"} /\ HasSkipMarker(body[p])) =>
            /\ ~Covered(p)
            /\ out[p] = body[p]
            /\ \A o \in 1..Len(perm) : (o < p) <=> (perm[o] < p)

\* C11 as amended: an import whose trailing comment, with its blanks removed,
\* starts with #usort:skip or #isort:skip belongs to no block, no import
\* moves across it, and it is left untouched.
C11_SkipMarkerAtStart ==
    \A p \in 1..Len(body) :
        ( /\ body[p].type \in {"Import", "ImportFrom"}
          /\ body[p].comment # None
          /\ \/ StartsWith(NoSpaces(body[p].comment), UsortSkip)
             \/ StartsWith(NoSpaces(body[p].comment), IsortSkip) ) =>
            /\ ~Covered(p)
            /\ out[p] = body[p]
            /\ \A o \in 1..Len(perm) : (o < p) <=> (perm[o] < p)

C11_Witness ==
    /\ pc = "done"
    /\ \E p \in 2..(Len(body) - 1) :
        /\ body[p].comment # None
        /\ StartsWith(NoSpaces(body[p].comment), UsortSkip)
        /\ body[p].comment # UsortSkip
        /\ Covered(p - 1) /\ Covered(p + 1)
        /\ SortableImportLt(from_node(body[p + 1]), from_node(body[p - 1]))
        /\ out = body

(* ------------------- semicolon lines and wide imports -------------------- *)

\* a statement line with n further semicolon-joined small statements
WithRest(stmt, n) == [stmt EXCEPT !.rest = n]

\* a module name of n letters: `import <name>` is 90 characters wide when
\* n is 82, and `from <name> import b` is 87, 88 and 89 characters wide when
\* n is 73, 74 and 75
N_long(n) == << [j \in 1..n |-> 97] >>

\* print("hi") / import b / import a / import a; import b /
\* import c; x = 1 / x = 1; import a / import aaaa...a
CorpusSemi ==
    { Other,
      Import(<<Alias(N_b, NoneName)>>),
      Import(<<Alias(N_a, NoneName)>>),
      WithRest(Import(<<Alias(N_a, NoneName)>>), 1),
      WithRest(Import(<<Alias(N_c, NoneName)>>), 1),
      WithRest(Other, 1),
      Import(<<Alias(N_long(82), NoneName)>>) }

SpecSemi == InitWith(CorpusSemi) /\ [][Next]_vars

\* C12: a statement line holding more than one semicolon-joined statement is
\* never sortable: it is a member of no block, it is left untouched at its
\* position, and the run goes on past it.
C12_SemicolonLineExcluded ==
    \A p \in 1..Len(body) :
        body[p].rest > 0 =>
            /\ ~Covered(p)
            /\ out[p] = body[p]
            /\ pc = "raised" => i + 1 # p

\* C13: no failure path: partitioning, sorting and rendering of a parsed
\* statement sequence never raise.
C13_NeverRaises == pc # "raised"

(* ----------------------------- line width -------------------------------- *)

\* print("hi") / import b / from c import d / from aa..a import c (87) /
\* from aa..a import e (88) / from aa..a import g (89)
CorpusWidth ==
    { Other,
      Import(<<Alias(N_b, NoneName)>>),
      ImportFrom(0, N_c, <<Alias(N_d, NoneName)>>),
      ImportFrom(0, N_long(73), <<Alias(N_c, NoneName)>>),
      ImportFrom(0, N_long(74), <<Alias(N_e, NoneName)>>),
      ImportFrom(0, N_long(75), <<Alias(N_g, NoneName)>>) }

SpecWidth == InitWith(CorpusWidth) /\ [][Next]_vars

\* the number of characters of the statement's single line, without the
\* lines above it and without the line end
DisplayWidth(stmt) == Len(CodeForNode([stmt EXCEPT !.leading_lines = <<>>])) - 1

\* output position o holds a statement that to_node rendered
Rendered(o) ==
    /\ pc \in {"sort", "done"}
    /\ \E n \in 1..k : InBlock(o, ret[n])

\* C14: render decision: a rendered import is in the multi-line form exactly
\* when the width of its single line, measured without leading lines and
\* indentation, exceeds the limit 88; up to 88 it stays on one line.
C14_MultiLineOnlyAbove88 ==
    \A o \in 1..Len(out) :
        Rendered(o) => (out[o].trailing_comma <=> DisplayWidth(out[o]) > 88)

(* ------------------- parenthesized from-imports -------------------------- *)

\* the comment "# n" for a digit n
Hash(n) == <<35, 32, 48 + n>>

AliasC(name, asname, comma_comment) ==
    [Alias(name, asname) EXCEPT !.comma_comment = comma_comment]

\* from <module> import ( <lpar_comment> / <lpar_lines> / names / <rpar_comment>
\* / <rpar_lines> / ) <comment>
Paren(module, names, lpar_comment, lpar_lines, rpar_comment, rpar_lines, comment) ==
    [ImportFrom(0, module, names) EXCEPT
        !.lpar = TRUE, !.trailing_comma = TRUE,
        !.lpar_comment = lpar_comment, !.lpar_lines = lpar_lines,
        !.rpar_comment = rpar_comment, !.rpar_lines = rpar_lines,
        !.comment = comment]

\* from c import (  # 2
\*     # 3
\*     d,  # 4
\*     e  # 6
\*     # 7
\* )  # 8
ParenAllComments ==
    Paren(N_c, <<AliasC(N_d, NoneName, Hash(4)), Alias(N_e, NoneName)>>,
          Hash(2), <<Hash(3)>>, Hash(6), <<Hash(7)>>, Hash(8))

\* from a import (
\*     g,
\* )
ParenPlain == Paren(N_a, <<Alias(N_g, NoneName)>>, None, <<>>, None, <<>>, None)

\* from aa..a import (      (89 wide on one line)
\*     g,  # 4
\*     # 7
\* )
ParenWide ==
    Paren(N_long(75), <<AliasC(N_g, NoneName, Hash(4))>>, None, <<>>, None, <<Hash(7)>>, None)

\* from f import (
\*
\*     b,
\* )
ParenBlankLine == Paren(N_f, <<Alias(N_b, NoneName)>>, None, <<None>>, None, <<>>, None)

\* print("hi") / import b / from f import c / and the four above
CorpusParen ==
    { Other,
      Import(<<Alias(N_b, NoneName)>>),
      ImportFrom(0, N_f, <<Alias(N_c, NoneName)>>),
      ParenAllComments, ParenPlain, ParenWide, ParenBlankLine }

SpecParen == InitWith(CorpusParen) /\ [][Next]_vars

\* the comment fragments on the items' lines, in source order
RECURSIVE ItemComments(_)
ItemComments(names) ==
    IF names = <<>> THEN <<>>
    ELSE (IF names[1].comma_comment # None
          THEN split_inline_comments(names[1].comma_comment) ELSE <<>>)
             \o ItemComments(Tail(names))

\* every comment fragment inside and after a parenthesized from-import, in
\* source order
AllComments(stmt) ==
    (IF stmt.lpar_comment # None THEN split_inline_comments(stmt.lpar_comment) ELSE <<>>)
        \o SelectSeq(stmt.lpar_lines, LAMBDA c : c # None)
        \o ItemComments(stmt.names)
        \o (IF stmt.rpar_comment # None THEN split_inline_comments(stmt.rpar_comment) ELSE <<>>)
        \o SelectSeq(stmt.rpar_lines, LAMBDA c : c # None)
        \o (IF stmt.comment # None THEN split_inline_comments(stmt.comment) ELSE <<>>)

\* C15: no comment is dropped when a parenthesized from-import is collapsed
\* to one line: the single trailing comment of the output holds every comment
\* fragment of the statement, in source order, joined by two blanks.
C15_CollapseKeepsComments ==
    \A p \in 1..Len(body) :
        ( /\ body[p].type = "ImportFrom" /\ body[p].lpar
          /\ Rendered(PosOf(p))
          /\ ~out[PosOf(p)].lpar )
        => out[PosOf(p)].comment
               = IF AllComments(body[p]) = <<>> THEN None
                 ELSE Join(AllComments(body[p]), <<32, 32>>)

\* C16: the multi-line rendering is the parenthesized form with a comma after
\* every item, keeps each item's inline comments on the item's line and the
\* extra_inside_comment lines before the closing parenthesis.
C16_MultiLineKeepsComments ==
    \A p \in 1..Len(body) :
        ( /\ body[p].type = "ImportFrom"
          /\ Rendered(PosOf(p))
          /\ out[PosOf(p)].lpar )
        => LET o == out[PosOf(p)]
           IN /\ o.trailing_comma
              /\ Len(o.names) = Len(body[p].names)
              /\ \A n \in 1..Len(o.names) :
                    o.names[n].comma_comment
                        = IF ItemComments(<<body[p].names[n]>>) = <<>> THEN None
                          ELSE Join(ItemComments(<<body[p].names[n]>>), <<32, 32>>)
              /\ o.rpar_lines = from_node(body[p]).extra_inside_comment

(* ---------------------------- nested scopes ------------------------------ *)

\* a compound statement (def, if) whose IndentedBlock holds the statements
Compound(stmts) == [Other EXCEPT !.block = stmts]

\* a visited block that comes back without its first statement
WithBlock_first_lost(stmts, at, block) == [stmts EXCEPT ![at].block = Tail(block)]

\* the enclosing body with the visited block put in place of the old one
WithBlock(stmts, at, block) == [stmts EXCEPT ![at].block = block]

\* the visit passes one statement of body; at a compound statement it
\* suspends the body and visits the statement's IndentedBlock first
Visit ==
    /\ pc = "visit"
    /\ visited < Len(body)
    /\ IF body[visited + 1].block # <<>>
       THEN /\ frames' = Append(frames, [body |-> body, at |-> visited + 1])
            /\ body' = body[visited + 1].block
            /\ visited' = 0
       ELSE /\ visited' = visited + 1
            /\ UNCHANGED <<frames, body>>
    /\ UNCHANGED <<i, ret, cur, k, out, perm, pc, pass, input,
                   files, f, data, yielded, write,
                   stdin, stdout, stderr, returned>>

\* every child has been visited: leave_Module / leave_IndentedBlock starts
Leave ==
    /\ pc = "visit"
    /\ visited = Len(body)
    /\ pc' = "partition"
    /\ i' = 0
    /\ ret' = <<>>
    /\ cur' = 0
    /\ k' = 0
    /\ out' = body
    /\ perm' = Identity(Len(body))
    /\ UNCHANGED <<body, pass, input, frames, visited,
                   files, f, data, yielded, write,
                   stdin, stdout, stderr, returned>>

\* leave_IndentedBlock has returned: the visit of the enclosing body goes on
\* with the updated block in place
Return ==
    /\ pc = "done"
    /\ frames # <<>>
    /\ LET top == frames[Len(frames)]
       IN /\ body' = WithBlock(top.body, top.at, out)
          /\ visited' = top.at
    /\ frames' = SubSeq(frames, 1, Len(frames) - 1)
    /\ pc' = "visit"
    /\ UNCHANGED <<i, ret, cur, k, out, perm, pass, input,
                   files, f, data, yielded, write,
                   stdin, stdout, stderr, returned>>

NextScopes ==
    Visit \/ Leave \/ PartitionStep \/ BeginSplice \/ SortBlock \/ Finish \/ Return

\* def f(): import b; import a
DefInner ==
    Compound(<<Import(<<Alias(N_b, NoneName)>>), Import(<<Alias(N_a, NoneName)>>)>>)

\* def g(): from c import b; def f(): ...; import a
DefAround ==
    Compound(<<ImportFrom(0, N_c, <<Alias(N_b, NoneName)>>), DefInner,
               Import(<<Alias(N_a, NoneName)>>)>>)

\* def h(): import c; import a; def f(): ...
DefBefore ==
    Compound(<<Import(<<Alias(N_c, NoneName)>>), Import(<<Alias(N_a, NoneName)>>),
               DefInner>>)

\* print("hi") / import b / import a / and the three above
CorpusScopes ==
    { Other,
      Import(<<Alias(N_b, NoneName)>>),
      Import(<<Alias(N_a, NoneName)>>),
      DefInner, DefAround, DefBefore }

InitScopes ==
    /\ body \in Bodies(CorpusScopes)
    /\ input = body
    /\ frames = <<>>
    /\ visited = 0
    /\ pc = "visit"
    /\ i = 0
    /\ ret = <<>>
    /\ cur = 0
    /\ k = 0
    /\ out = body
    /\ perm = Identity(Len(body))
    /\ pass = 1
    /\ NoWalk

SpecScopes == InitScopes /\ [][NextScopes]_vars

\* the positions of the run of statements around p that no statement other
\* than an import interrupts
RunOf(stmts, p) ==
    {q \in 1..Len(stmts) :
        \A r \in 1..Len(stmts) :
            ((p <= r /\ r <= q) \/ (q <= r /\ r <= p)) => stmts[r].type # "Other"}

\* b is a with, in every body at every depth, the same statements other than
\* imports at the same positions and the same imports in every run between
\* them
RECURSIVE ScopesKept(_, _)
ScopesKept(a, b) ==
    /\ Len(a) = Len(b)
    /\ \A p \in 1..Len(a) :
        IF a[p].type = "Other"
        THEN /\ [b[p] EXCEPT !.block = <<>>] = [a[p] EXCEPT !.block = <<>>]
             /\ ScopesKept(a[p].block, b[p].block)
        ELSE \A v \in {Sem(a[q]) : q \in RunOf(a, p)} \cup {Sem(b[q]) : q \in RunOf(a, p)} :
                 Cardinality({q \in RunOf(a, p) : Sem(b[q]) = v})
                     = Cardinality({q \in RunOf(a, p) : Sem(a[q]) = v})

\* in every body at every depth, neighbouring imports stand in the order of
\* their sort keys, unless imports of their run bind one name differently
RECURSIVE ScopesSorted(_)
ScopesSorted(a) ==
    \A p \in 1..Len(a) :
        /\ a[p].type = "Other" => ScopesSorted(a[p].block)
        /\ ( /\ p < Len(a)
             /\ IsImport(a[p]) /\ IsImport(a[p + 1])
             /\ \A q \in RunOf(a, p) : \A r \in RunOf(a, p) : ~Conflict(a[q], a[r]) )
           => KeyLeq(KeyOf(a[p]), KeyOf(a[p + 1]))

\* C17: scope independence: every nested body is sorted by a pass of its
\* own, an import is reordered only among the statements of its own body and
\* never moves into, out of or across a nested body, and sorting the
\* enclosing body leaves the nested body as its own pass produced it.
C17_ScopesIndependent ==
    /\ pc \in {"sort", "done"} =>
          \A p \in 1..Len(body) : body[p].type = "Other" => out[p] = body[p]
    /\ (pc = "done" /\ frames = <<>>) =>
          /\ ScopesKept(input, out)
          /\ ScopesSorted(out)

C17_Witness ==
    /\ pc = "done"
    /\ frames = <<>>
    /\ \E p \in 1..Len(out) :
        /\ perm # Identity(Len(out))
        /\ out[p].block # <<>>
        /\ out[p].block # input[perm[p]].block
        /\ \E q \in 1..Len(out[p].block) :
            /\ out[p].block[q].block # <<>>
            /\ out[p].block[q].block # input[perm[p]].block[q].block

(* ----------------------------- bound names ------------------------------- *)

\* print("hi") / import a.b / import a.b as c / import a.b, c as d /
\* from a import b as c / from a.b import c / from . import a /
\* from .a import b / from .. import a as b
CorpusBind ==
    { Other,
      Import(<<Alias(N_ab, NoneName)>>),
      Import(<<Alias(N_ab, N_c)>>),
      Import(<<Alias(N_ab, NoneName), Alias(N_c, N_d)>>),
      ImportFrom(0, N_a, <<Alias(N_b, N_c)>>),
      ImportFrom(0, N_ab, <<Alias(N_c, NoneName)>>),
      ImportFrom(1, NoneName, <<Alias(N_a, NoneName)>>),
      ImportFrom(1, N_a, <<Alias(N_b, NoneName)>>),
      ImportFrom(2, NoneName, <<Alias(N_a, N_b)>>) }

SpecBind == InitWith(CorpusBind) /\ [][Next]_vars

\* the stem of a from-import: the dots and the module; None for `import`
StemOf(node) == from_node(node).stem

\* what one item binds, as stated: the local name and the qualified target
StatedName(node, al) ==
    IF node.type = "Import"
    THEN IF al.asname # NoneName THEN with_dots(al.asname)
         ELSE top_level_name(with_dots(al.name))
    ELSE IF al.asname # NoneName THEN with_dots(al.asname) ELSE with_dots(al.name)

StatedTarget(node, al) ==
    IF node.type = "Import"
    THEN IF al.asname # NoneName THEN with_dots(al.name)
         ELSE top_level_name(with_dots(al.name))
    ELSE stemjoin(StemOf(node), with_dots(al.name))

\* C18: imported_names derivation: a plain import binds, for an unaliased
\* item, its top-level name to itself and, for an aliased item, the alias to
\* the full dotted name; a from-import binds for each item the alias or item
\* name to the stem joined with the item name, without a second dot after a
\* stem that ends in a dot.
C18_ImportedNames ==
    \A n \in 1..Len(ret) : \A m \in 1..Len(ret[n].stmts) :
        LET node == body[ret[n].start_idx + m]
            names == ret[n].stmts[m].imported_names
        IN /\ DOMAIN names = {StatedName(node, node.names[j]) : j \in 1..Len(node.names)}
           /\ \A j \in 1..Len(node.names) :
                 (\A j2 \in (j + 1)..Len(node.names) :
                      StatedName(node, node.names[j2]) # StatedName(node, node.names[j]))
                 => names[StatedName(node, node.names[j])]
                        = StatedTarget(node, node.names[j])

\* from . import a / from .a import b / import a.b as c have been examined
C18_Witness ==
    /\ Len(ret) = 1
    /\ Len(ret[1].stmts) = 3
    /\ ret[1].stmts[1].imported_names = (<<97>> :> <<46, 97>>)
    /\ ret[1].stmts[2].imported_names = (<<98>> :> <<46, 97, 46, 98>>)
    /\ ret[1].stmts[3].imported_names = (<<99>> :> <<97, 46, 98>>)

(* -------------------------- side-effect modules -------------------------- *)

\* Config.side_effect_modules : ("s")
side_effect_modules == {<<115>>}

N_s == << <<115>> >>

\* print("hi") / import s / from s import c / import a / import b
CorpusEffect ==
    { Other,
      Import(<<Alias(N_s, NoneName)>>),
      ImportFrom(0, N_s, <<Alias(N_c, NoneName)>>),
      Import(<<Alias(N_a, NoneName)>>),
      Import(<<Alias(N_b, NoneName)>>) }

SpecEffect == InitWith(CorpusEffect) /\ [][Next]_vars

\* the statement imports a module of the side-effect list
IsSideEffectImport(stmt) ==
    IsImport(stmt) /\ FirstModule(stmt) \in side_effect_modules

\* C19: side-effect modules: an import of a module of the configuration's
\* side-effect list is the only member of its block, and no import is
\* reordered across it.
C19_SideEffectImportAlone ==
    \A p \in 1..Len(body) :
        IsSideEffectImport(body[p]) =>
            /\ \A n \in 1..Len(ret) : \A q \in 1..Len(body) :
                  (InBlock(p, ret[n]) /\ InBlock(q, ret[n])) => q = p
            /\ \A o \in 1..Len(perm) : (o < p) <=> (perm[o] < p)

(* ------------------------------ usort_path ------------------------------- *)

\* longest walk
MaxFiles == 2

\* the exception of a Result: None, or the step of the loop body that raised
NoError == "None"

\* Result(path, content, output, error)
Result(path, content, output, error) ==
    [path |-> path, content |-> content, output |-> output, error |-> error]

\* one file of the walk: whether Config.find, read_text, try_parse and
\* write_text succeed on it, the statements of the text read_text finds, and
\* whether write_text has replaced that text
File(find, read, parse, writable, text) ==
    [path |-> 0, find |-> find, read |-> read, parse |-> parse,
     writable |-> writable, text |-> text, written |-> FALSE]

\* import b
\* import a
TextSortable ==
    <<Import(<<Alias(N_b, NoneName)>>), Import(<<Alias(N_a, NoneName)>>)>>

\* import a; import b
TextRaising == <<WithRest(Import(<<Alias(N_a, NoneName)>>), 1)>>

\* a file that sorts / one whose directory has a broken configuration /
\* one that cannot be read / one that no grammar version parses / one whose
\* sorting raises / one that cannot be written / one with nothing to sort
CorpusFiles ==
    { File(TRUE, TRUE, TRUE, TRUE, TextSortable),
      File(FALSE, TRUE, TRUE, TRUE, TextSortable),
      File(TRUE, FALSE, TRUE, TRUE, <<Other>>),
      File(TRUE, TRUE, FALSE, TRUE, <<Other>>),
      File(TRUE, TRUE, TRUE, TRUE, TextRaising),
      File(TRUE, TRUE, TRUE, FALSE, TextSortable),
      File(TRUE, TRUE, TRUE, TRUE, <<Other>>) }

\* files = walk(path, "*.py") or [path]: distinct paths, in walk order
Walks ==
    { [n \in DOMAIN w |-> [w[n] EXCEPT !.path = n]] :
        w \in UNION {[1..n -> CorpusFiles] : n \in 1..MaxFiles} }

\* except Exception as e: yield Result(f, data, "", e)
\* reading data while it is unbound raises out of the handler
Handler(file, local, e) ==
    IF local.bound
    THEN /\ yielded' = Append(yielded, Result(file.path, local.value, <<>>, e))
         /\ pc' = "files"
    ELSE /\ yielded' = yielded
         /\ pc' = "escaped"

\* for f in files: config = Config.find(f.parent); data = f.read_text();
\* mod = try_parse(...)
StartFile ==
    /\ pc = "files"
    /\ f < Len(files)
    /\ f' = f + 1
    /\ LET file == files[f + 1]
       IN IF ~file.find
          THEN /\ Handler(file, data, "find")
               /\ UNCHANGED <<data, body, input, i, ret, cur, k, out, perm>>
          ELSE IF ~file.read
          THEN /\ Handler(file, data, "read")
               /\ UNCHANGED <<data, body, input, i, ret, cur, k, out, perm>>
          ELSE IF ~file.parse
          THEN /\ data' = [bound |-> TRUE, value |-> file.text]
               /\ Handler(file, data', "parse")
               /\ UNCHANGED <<body, input, i, ret, cur, k, out, perm>>
          ELSE /\ data' = [bound |-> TRUE, value |-> file.text]
               /\ body' = file.text
               /\ input' = file.text
               /\ i' = 0
               /\ ret' = <<>>
               /\ cur' = 0
               /\ k' = 0
               /\ out' = file.text
               /\ perm' = Identity(Len(file.text))
               /\ pc' = "partition"
               /\ UNCHANGED yielded
    /\ UNCHANGED <<pass, frames, visited, files, write,
                   stdin, stdout, stderr, returned>>

\* if write: f.write_text(output)
\* yield Result(f, data, output)
YieldResult ==
    /\ pc = "done"
    /\ IF write /\ ~files[f].writable
       THEN /\ Handler(files[f], data, "write")
            /\ UNCHANGED files
       ELSE /\ files' = IF write
                        THEN [files EXCEPT ![f].written = TRUE]
                        ELSE files
            /\ yielded' = Append(yielded,
                              Result(files[f].path, data.value, out, NoError))
            /\ pc' = "files"
    /\ UNCHANGED <<body, i, ret, cur, k, out, perm, pass, input, frames,
                   visited, f, data, write,
                   stdin, stdout, stderr, returned>>

\* usort_string raised
YieldFailure ==
    /\ pc = "raised"
    /\ Handler(files[f], data, "sort")
    /\ UNCHANGED <<body, i, ret, cur, k, out, perm, pass, input, frames,
                   visited, files, f, data, write,
                   stdin, stdout, stderr, returned>>

\* the loop of usort_path is over
StopIteration ==
    /\ pc = "files"
    /\ f = Len(files)
    /\ pc' = "returned"
    /\ UNCHANGED <<body, i, ret, cur, k, out, perm, pass, input, frames,
                   visited, files, f, data, yielded, write,
                   stdin, stdout, stderr, returned>>

NextPath ==
    StartFile \/ PartitionStep \/ BeginSplice \/ SortBlock \/ Finish
        \/ YieldResult \/ YieldFailure \/ StopIteration

InitPath ==
    /\ files \in Walks
    /\ write \in BOOLEAN
    /\ f = 0
    /\ data = Unbound
    /\ yielded = <<>>
    /\ pc = "files"
    /\ body = <<>>
    /\ input = <<>>
    /\ i = 0
    /\ ret = <<>>
    /\ cur = 0
    /\ k = 0
    /\ out = <<>>
    /\ perm = <<>>
    /\ pass = 1
    /\ frames = <<>>
    /\ visited = 0
    /\ NoStdin

SpecPath == InitPath /\ [][NextPath]_vars

\* the step at which the loop body fails on a file whatever its text
FailsAt(file) ==
    IF ~file.find THEN "find"
    ELSE IF ~file.read THEN "read"
    ELSE IF ~file.parse THEN "parse"
    ELSE IF write /\ ~file.writable THEN "write"
    ELSE NoError

\* C20: a file that fails in finding the configuration, reading, parsing,
\* sorting or writing gets one Result with its path and the exception, and
\* the loop goes on: one Result per file the loop is through with, in walk
\* order, and no exception leaves usort_path.
C20_FailureIsolation ==
    /\ pc # "escaped"
    /\ Len(yielded) = (IF pc \in {"files", "returned"} THEN f ELSE f - 1)
    /\ \A n \in 1..Len(yielded) :
           /\ yielded[n].path = files[n].path
           /\ FailsAt(files[n]) \in {"find", "read", "parse"} =>
                  yielded[n].error = FailsAt(files[n])
           /\ yielded[n].error = "sort" => files[n].text = TextRaising
           /\ yielded[n].error = "write" => FailsAt(files[n]) = "write"
           /\ yielded[n].error # NoError => yielded[n].output = <<>>

(* --------------------------- initial blank lines ------------------------- *)

\* C21: the first import of each sorted block has in front of it the run of
\* blank lines that stood in front of the block's first statement in the
\* input, whichever import sorting has put first.
C21_InitialBlankRunKept ==
    pc \in {"sort", "done"} =>
        \A n \in 1..k :
            partition_leading_lines(out[ret[n].start_idx + 1].leading_lines)[1]
                = partition_leading_lines(body[ret[n].start_idx + 1].leading_lines)[1]

(* ------------------------- case-insensitive order ------------------------ *)

\* print("hi") / import B / import a / import c / from a import B /
\* from a import c / from .a import d / from .a import b
CorpusCase ==
    { Other,
      Import(<<Alias(N_B, NoneName)>>),
      Import(<<Alias(N_a, NoneName)>>),
      Import(<<Alias(N_c, NoneName)>>),
      ImportFrom(0, N_a, <<Alias(N_B, NoneName)>>),
      ImportFrom(0, N_a, <<Alias(N_c, NoneName)>>),
      ImportFrom(1, N_a, <<Alias(N_d, NoneName)>>),
      ImportFrom(1, N_a, <<Alias(N_b, NoneName)>>) }

SpecCase == InitWith(CorpusCase) /\ [][Next]_vars

\* C22: two imports of one block that have the same sort_key stand in
\* ascending order of their lower-cased module name, and when the module
\* names are equal in ascending order of their lower-cased first imported
\* name.
C22_CaseInsensitiveOrder ==
    pc = "done" =>
        \A n \in 1..Len(ret) : \A p \in 1..Len(out) : \A q \in 1..Len(out) :
            ( /\ InBlock(p, ret[n]) /\ InBlock(q, ret[n]) /\ p < q
              /\ KeyOf(out[p]) = KeyOf(out[q]) )
            => LET module(s) == Lower(IF s.type = "Import"
                                      THEN with_dots(s.names[1].name)
                                      ELSE StemOf(s))
                   first(s) == Lower(with_dots(s.names[1].name))
               IN IF module(out[p]) # module(out[q])
                  THEN StrLt(module(out[p]), module(out[q]))
                  ELSE ~StrLt(first(out[q]), first(out[p]))

(* ------------------------------ usort_stdin ------------------------------ *)

\* an except clause that writes the exception to sys.stdout
StdinHandler_to_stdout(e) ==
    /\ stdout' = Append(stdout, e)
    /\ stderr' = stderr
    /\ returned' = "False"
    /\ pc' = "returned"

\* except Exception as e: sys.stderr.write(repr(e)); return False
StdinHandler(e) ==
    /\ stderr' = Append(stderr, e)
    /\ stdout' = stdout
    /\ returned' = "False"
    /\ pc' = "returned"

\* config = Config.find(); data = sys.stdin.read(); usort_string up to
\* try_parse
StdinStart ==
    /\ pc = "stdin"
    /\ IF ~stdin.find THEN StdinHandler("find") /\ UNCHANGED <<body, input, out, perm>>
       ELSE IF ~stdin.read THEN StdinHandler("read") /\ UNCHANGED <<body, input, out, perm>>
       ELSE IF ~stdin.parse THEN StdinHandler("parse") /\ UNCHANGED <<body, input, out, perm>>
       ELSE /\ body' = stdin.text
            /\ input' = stdin.text
            /\ out' = stdin.text
            /\ perm' = Identity(Len(stdin.text))
            /\ pc' = "partition"
            /\ UNCHANGED <<stdout, stderr, returned>>
    /\ UNCHANGED <<i, ret, cur, k, pass, frames, visited,
                   files, f, data, yielded, write, stdin>>

\* usort_string raised
StdinRaised ==
    /\ pc = "raised"
    /\ StdinHandler("sort")
    /\ UNCHANGED <<body, i, ret, cur, k, out, perm, pass, input, frames, visited,
                   files, f, data, yielded, write, stdin>>

\* sys.stdout.write(result); return True
StdinWrite ==
    /\ pc = "done"
    /\ stdout' = Append(stdout, out)
    /\ returned' = "True"
    /\ pc' = "returned"
    /\ UNCHANGED <<body, i, ret, cur, k, out, perm, pass, input, frames, visited,
                   files, f, data, yielded, write, stdin, stderr>>

NextStdin ==
    StdinStart \/ PartitionStep \/ BeginSplice \/ SortBlock \/ Finish
        \/ StdinRaised \/ StdinWrite

\* the text on stdin: statements out of print("hi"), import b, import a and
\* import a; import b
InitStdin ==
    /\ stdin \in [find : BOOLEAN, read : BOOLEAN, parse : BOOLEAN,
                  text : Bodies({ Other,
                                  Import(<<Alias(N_b, NoneName)>>),
                                  Import(<<Alias(N_a, NoneName)>>),
                                  WithRest(Import(<<Alias(N_a, NoneName)>>), 1) })]
    /\ stdout = <<>>
    /\ stderr = <<>>
    /\ returned = "None"
    /\ pc = "stdin"
    /\ body = <<>>
    /\ input = <<>>
    /\ i = 0
    /\ ret = <<>>
    /\ cur = 0
    /\ k = 0
    /\ out = <<>>
    /\ perm = <<>>
    /\ pass = 1
    /\ frames = <<>>
    /\ visited = 0
    /\ files = <<>>
    /\ f = 0
    /\ data = Unbound
    /\ yielded = <<>>
    /\ write = FALSE

SpecStdin == InitStdin /\ [][NextStdin]_vars

\* C23: usort_stdin returns True only when the configuration lookup, the
\* read and the sorting have all succeeded, and then stdout holds the sorted
\* result and nothing else; when it returns False nothing has been written
\* to stdout, the exception has been written to stderr, and one of the steps
\* has failed. Nothing is written to stdout before it returns.
C23_StdinAllOrNothing ==
    /\ returned = "None" => stdout = <<>>
    /\ returned = "True" =>
           /\ stdin.find /\ stdin.read /\ stdin.parse
           /\ \A p \in 1..Len(stdin.text) : stdin.text[p].rest = 0
           /\ stdout = <<out>>
           /\ stderr = <<>>
           /\ Len(out) = Len(stdin.text)
           /\ \A p \in 1..Len(out) : Sem(out[p]) = Sem(stdin.text[perm[p]])
    /\ returned = "False" =>
           /\ stdout = <<>>
           /\ Len(stderr) = 1
           /\ stderr[1] = (IF ~stdin.find THEN "find"
                           ELSE IF ~stdin.read THEN "read"
                           ELSE IF ~stdin.parse THEN "parse" ELSE "sort")
           /\ stderr[1] = "sort" =>
                  \E p \in 1..Len(stdin.text) : stdin.text[p].rest # 0

\* usort_stdin has returned False after the sorting raised
C23_Witness ==
    /\ returned = "False"
    /\ stderr = <<"sort">>
    /\ stdin.text[Len(stdin.text)].rest # 0
    /\ Len(stdin.text) > 1

(* ------------------------- leading comment lines ------------------------- *)

\* print("hi") / import a / #x import b / #! #x import c /
\* #x #! #x from f import c / <blank> #x import B
CorpusLead ==
    { Other,
      Import(<<Alias(N_a, NoneName)>>),
      WithLeading(Import(<<Alias(N_b, NoneName)>>), <<HashX>>),
      WithLeading(Import(<<Alias(N_c, NoneName)>>), <<<<35, 33>>, HashX>>),
      WithLeading(ImportFrom(0, N_f, <<Alias(N_c, NoneName)>>),
                  <<HashX, <<35, 33>>, HashX>>),
      WithLeading(Import(<<Alias(N_B, NoneName)>>), <<None, HashX>>) }

SpecLead == InitWith(CorpusLead) /\ [][Next]_vars

\* C24: the leading comment lines of a statement are split at the first line
\* that contains a directive marker: no line of comment_lines contains a
\* marker, the first line of directive_lines does, and comment_lines
\* followed by directive_lines is the sequence of leading comment lines.
C24_StickyBisection ==
    \A p \in 1..Len(body) :
        (is_sortable_import(body[p]) /\ ~from_node_raises(body[p])) =>
            LET si == from_node(body[p])
                marked(line) == \E ind \in directive_comments : Contains(line, ind)
            IN /\ si.comment_lines \o si.directive_lines
                      = SelectSeq(body[p].leading_lines, LAMBDA c : c # None)
               /\ \A j \in 1..Len(si.comment_lines) : ~marked(si.comment_lines[j])
               /\ si.directive_lines # <<>> => marked(si.directive_lines[1])

\* a sorted statement with a comment line below its first directive line
C24_Witness ==
    /\ pc = "done"
    /\ \E o \in 1..Len(out) :
        /\ perm[o] # o
        /\ Len(from_node(body[perm[o]]).directive_lines) > 1
        /\ Len(from_node(body[perm[o]]).comment_lines) > 0
        /\ ~Contains(from_node(body[perm[o]]).directive_lines[2], <<33>>)

\* C28: the comment lines above an import of a sorted block are the comment
\* lines that stood above that import in the input, in the same order,
\* wherever sorting has put the import.
C28_CommentsMoveWithImport ==
    pc \in {"sort", "done"} =>
        \A o \in 1..Len(out) :
            (\E n \in 1..k : InBlock(o, ret[n])) =>
                SelectSeq(out[o].leading_lines, LAMBDA c : c # None)
                    = SelectSeq(body[perm[o]].leading_lines, LAMBDA c : c # None)

\* two imports with different comment lines above them have changed places
C28_Witness ==
    /\ pc = "done"
    /\ \E o \in 2..Len(out) :
        /\ perm[o] = o - 1 /\ perm[o - 1] = o
        /\ \E n \in 1..k : InBlock(o - 1, ret[n]) /\ InBlock(o, ret[n])
        /\ Len(SelectSeq(out[o].leading_lines, LAMBDA c : c # None)) = 3
        /\ Len(SelectSeq(out[o - 1].leading_lines, LAMBDA c : c # None)) = 1

(* ---------------------------- block structure ---------------------------- *)

\* C25: after every step of the walk of sortable_blocks the blocks stand in
\* increasing position order without overlap, each block has start < end and
\* end - start members, every position inside a block holds a sortable
\* import, and every sortable import the walk has passed lies in exactly one
\* block.
C25_BlockStructure ==
    /\ \A n \in 1..Len(ret) :
           /\ ret[n].start_idx < ret[n].end_idx
           /\ Len(ret[n].stmts) = ret[n].end_idx - ret[n].start_idx
           /\ n < Len(ret) => ret[n].end_idx <= ret[n + 1].start_idx
           /\ \A p \in 1..Len(body) :
                  InBlock(p, ret[n]) => is_sortable_import(body[p])
    /\ \A p \in 1..i :
           is_sortable_import(body[p]) =>
               Cardinality({n \in 1..Len(ret) : InBlock(p, ret[n])}) = 1

\* the walk has passed an import, a statement that is no import and an
\* import: two blocks that do not touch
C25_Witness ==
    /\ pc = "partition"
    /\ i = 3
    /\ Len(ret) = 2
    /\ ~is_sortable_import(body[2])
    /\ ret[1].end_idx < ret[2].start_idx

\* C26: two blocks touch (one ends where the next starts) only when the
\* first import of the later block binds a name that the names accumulated
\* in the earlier block bind to a different target; that import is the first
\* member of the later block, the earlier block ends just before it, and the
\* names accumulated in a block are bound by its own members alone.
C26_AdjacentOnlyOnCollision ==
    /\ \A n \in 1..Len(ret) :
           /\ ret[n].stmts[1].imported_names
                  = ImportedNames(body[ret[n].start_idx + 1])
           /\ \A name \in DOMAIN ret[n].imported_names :
                  \E p \in 1..Len(body) :
                      /\ InBlock(p, ret[n])
                      /\ name \in DOMAIN ImportedNames(body[p])
                      /\ ImportedNames(body[p])[name] = ret[n].imported_names[name]
    /\ \A n \in 1..(Len(ret) - 1) :
           ret[n].end_idx = ret[n + 1].start_idx =>
               LET acc == ret[n].imported_names
                   new == ImportedNames(body[ret[n + 1].start_idx + 1])
               IN \E name \in DOMAIN new \cap DOMAIN acc : acc[name] # new[name]

\* three imports in a row, the second colliding with the first and the third
\* joining the second with a name of its own: two blocks that touch
C26_Witness ==
    /\ pc = "partition"
    /\ i = 3
    /\ Len(ret) = 2
    /\ ret[1].end_idx = 1 /\ ret[2].start_idx = 1 /\ ret[2].end_idx = 3
    /\ Cardinality(DOMAIN ret[2].imported_names) = 2

(* ------------------------- comments of one item -------------------------- *)

\* print("hi") / import b / the import with every kind of comment / and
\* from c import (
\*     d  # 3
\*     ,  # 4
\*     # 5
\*     e,  # 6
\* )
CorpusAlias ==
    { Other,
      Import(<<Alias(N_b, NoneName)>>),
      ParenAllComments,
      Paren(N_c, << [AliasC(N_d, NoneName, Hash(4)) EXCEPT
                        !.before_comma = Hash(3), !.comma_lines = <<Hash(5)>>],
                    AliasC(N_e, NoneName, Hash(6)) >>,
            None, <<>>, None, <<>>, None) }

SpecAlias == InitWith(CorpusAlias) /\ [][Next]_vars

\* C27: the inline_comments of every item of a block member are the comment
\* fragments of the item's own line from left to right, those before the
\* comma followed by those after it, and hold no comment line that follows
\* the comma.
C27_ItemInlineComments ==
    \A n \in 1..Len(ret) : \A p \in 1..Len(body) :
        InBlock(p, ret[n]) =>
            \A m \in 1..Len(body[p].names) :
                LET item == from_node(body[p]).imports[m]
                    stated == parse_alias_comments(body[p].names[m])
                IN /\ item.inline_comments = stated.inline
                   /\ \A j \in 1..Len(stated.following) :
                          \A c \in 1..Len(item.inline_comments) :
                              item.inline_comments[c] # stated.following[j]

(* --------------------------- render round trip --------------------------- *)

\* C29: rendering what from_node extracts from a sortable import gives a
\* statement of the same kind with the same leading dots, the same module
\* path and the same items, names and aliases, in the same order; and that is
\* the statement the transformer puts into the output.
C29_RenderRoundTrip ==
    /\ \A p \in 1..Len(body) :
           (is_sortable_import(body[p]) /\ ~from_node_raises(body[p])) =>
               Sem(to_node_single_line(from_node(body[p]))) = Sem(body[p])
    /\ \A o \in 1..Len(out) :
           Rendered(o) => Sem(out[o]) = Sem(body[perm[o]])

\* a sorted block out of a relative from-import that names a module, an
\* aliased import of a dotted name and a statement importing two items
C29_Witness ==
    /\ pc = "done"
    /\ Len(ret) = 1 /\ ret[1].end_idx = 3
    /\ perm # Identity(3)
    /\ \E p \in 1..3 : body[p].relative > 0 /\ body[p].module # NoneName
    /\ \E p \in 1..3 : body[p].type = "Import" /\ Len(body[p].names) = 2
    /\ \E p \in 1..3 : body[p].type = "ImportFrom" /\ body[p].names[1].asname # NoneName

(* --------------------------- Result.content ------------------------------ *)

\* C30: the content of every yielded Result is the text read from the
\* Result's own path, and nothing when that file was not read; and a file
\* whose Result carries an exception has not been written, whatever write
\* is.
C30_OwnContentNoWriteOnFailure ==
    \A n \in 1..Len(yielded) :
        /\ yielded[n].content
               = (IF FailsAt(files[n]) \in {"find", "read"} THEN <<>>
                  ELSE files[n].text)
        /\ yielded[n].error # NoError => ~files[n].written

====
